---- MODULE Spec2Model ----
(***************************************************************************)
(* CryptoDash, static/js/main.js: the periodic price-refresh pipeline.     *)
(*                                                                         *)
(* The state is the page: the interval timers of the browser's timer       *)
(* table, the global handle priceUpdateInterval, the document's visibility,*)
(* the elements tagged data-coin-id (class list, text, spinner children),  *)
(* the refresh cycles in flight with their pending fetch promises, the     *)
(* console's error log, and the notification banners whose removal timer   *)
(* is pending.                                                             *)
(*                                                                         *)
(* Every action is one callback of the event loop, run to completion.      *)
(* The tagged elements are siblings (none contains another), as the only   *)
(* markup in the source that creates them does (showSearchSuggestions).    *)
(***************************************************************************)
EXTENDS Integers, Sequences, FiniteSets, TLC

\* ---------------------------------------------------------------- bounds
MaxTimers == 2      \* setInterval calls explored
MaxCycles == 2      \* refresh cycles in flight at one time
MaxNotes  == 1      \* removal timers of banners pending at one time
MaxUnits  == 2      \* whole dollars of the prices formatted: 0..MaxUnits and edge values
MaxPct    == 30     \* percentages formatted: -MaxPct..MaxPct thousandths and edge values
MaxMega   == 2      \* millions of the large numbers formatted: 0..MaxMega and edge values
MaxClasses == 3     \* tokens in the class list an element has before a direct update

\* ------------------------------------------------------ program constants
IntervalMs      == 30000   \* setInterval(updatePrices, 30000)
DefaultDuration == 3000    \* showNotification(..., duration = 3000)
RefreshDuration == 1000    \* showNotification('Refreshing prices...', 'info', 1000)

VARIABLES
    pathname,             \* window.location.pathname, as a sequence of tokens
    docHidden,            \* document.hidden
    domLoaded,            \* DOMContentLoaded has been dispatched
    priceUpdateInterval,  \* the global handle; 0 is undefined
    nextTimerId,          \* the handle the next setInterval returns
    liveTimers,           \* handles of the interval timers that are live
    hiddenFor,            \* ms since the last visibilitychange to hidden; -1 if none applies
    dom,                  \* the elements matching [data-coin-id], in document order
    cycles,               \* the refresh cycles in flight (Loading)
    pending,              \* per cycle, the arguments of its pending fetchCoinPrices calls
    errorLogged,          \* console.error('Failed to update prices:', ...) has run
    notifications,        \* the banners attached to the body, in document order
    orphanTimers,         \* pending removal timers whose banner is already detached
    call,                 \* the last direct call of a function of the script: name, argument
    result                \* what that call returned

tickerVars   == <<priceUpdateInterval, nextTimerId, liveTimers>>
pageVars     == <<pathname, docHidden, domLoaded, hiddenFor>>
pipelineVars == <<dom, cycles, pending>>
noteVars     == <<notifications, orphanTimers>>
apiVars      == <<call, result>>
vars == <<pathname, docHidden, domLoaded, priceUpdateInterval, nextTimerId,
          liveTimers, hiddenFor, dom, cycles, pending, errorLogged, notifications,
          orphanTimers, call, result>>

\* ------------------------------------------------------------ sequences
Range(s) == {s[i] : i \in 1..Len(s)}

\* String.prototype.includes on token sequences
Includes(s, sub) ==
    \E i \in 1..(Len(s) - Len(sub) + 1) : SubSeq(s, i, i + Len(sub) - 1) = sub

\* a variant of Unique that keeps every occurrence
UniqueKeepAll(a) == a

\* [...new Set(a)]: the first occurrence of every value, in order
Unique(a) ==
    LET firsts == {i \in 1..Len(a) : \A j \in 1..(i - 1) : a[j] # a[i]}
    IN  [k \in 1..Cardinality(firsts) |->
            a[CHOOSE i \in firsts : Cardinality({j \in firsts : j <= i}) = k]]

\* ---------------------------------------------------------------- Ticker
OnTickerRoute(p) ==
    Includes(p, <<"/", "dashboard">>) \/ Includes(p, <<"/", "portfolio">>)

\* ------------------------------------------------------------ formatting
\* A price is [units, frac7]: units + frac7 / 10^7, frac7 \in 0..9999999.
\* A percentage is an integer number of thousandths of a percent.

RECURSIVE Pad(_, _)
\* n in decimal, left-padded with zeros to w digits
Pad(n, w) == IF w <= 1 THEN ToString(n)
             ELSE IF n < 10 THEN "0" \o Pad(n, w - 1) ELSE Pad(n \div 10, w - 1) \o ToString(n % 10)

RECURSIVE Grouped(_)
\* en-US digit grouping of a natural number
Grouped(n) == IF n < 1000 THEN ToString(n)
              ELSE Grouped(n \div 1000) \o "," \o Pad(n % 1000, 3)

\* a variant of formatPrice that takes the branch on the price rounded to cents
formatPriceRoundedBranch(price) ==
    LET cents == (price.frac7 + 50000) \div 100000
    IN  IF price.units + cents \div 100 >= 1
        THEN "$" \o Grouped(price.units + cents \div 100) \o "." \o Pad(cents % 100, 2)
        ELSE LET micros == (price.frac7 + 5) \div 10
             IN  "$" \o Grouped(micros \div 1000000) \o "." \o Pad(micros % 1000000, 6)

\* Intl.NumberFormat('en-US', {style: 'currency', currency: 'USD'}) with
\* 2 fraction digits when price >= 1 and 6 otherwise; the branch is taken on
\* the unrounded price, the rounding carries into the integer part.
formatPrice(price) ==
    IF price.units >= 1
    THEN LET cents == (price.frac7 + 50000) \div 100000
         IN  "$" \o Grouped(price.units + cents \div 100) \o "." \o Pad(cents % 100, 2)
    ELSE LET micros == (price.frac7 + 5) \div 10
         IN  "$" \o Grouped(micros \div 1000000) \o "." \o Pad(micros % 1000000, 6)

\* Number.prototype.toFixed(2): the sign of the unrounded number, then the
\* magnitude rounded half up to hundredths
toFixed2(x) ==
    LET a == IF x < 0 THEN -x ELSE x
        h == (a + 5) \div 10
    IN  (IF x < 0 THEN "-" ELSE "") \o ToString(h \div 100) \o "." \o Pad(h % 100, 2)

\* a variant of formatPercentage that gives zero no sign
formatPercentageStrictSign(percentage) ==
    LET sign == IF percentage > 0 THEN "+" ELSE ""
    IN  sign \o toFixed2(percentage) \o "%"

formatPercentage(percentage) ==
    LET sign == IF percentage >= 0 THEN "+" ELSE ""
    IN  sign \o toFixed2(percentage) \o "%"

\* Number.prototype.toFixed(1) of a number given in tenths
toFixed1(tenths) == ToString(tenths \div 10) \o "." \o ToString(tenths % 10)

\* 1 when the fraction (hi + lo / 10^6) / (2 * half) rounds up to the next
\* integer, 0 when it rounds down; an exact decimal tie falls as its binary
\* double does, up or down (tieUp)
RoundsUp(hi, half, lo, tieUp) ==
    IF hi > half \/ (hi = half /\ lo > 0) THEN 1
    ELSE IF hi = half /\ lo = 0 THEN (IF tieUp THEN 1 ELSE 0)
    ELSE 0

\* A large number is [mega, rest]: mega * 10^6 + rest, rest \in 0..999999.

\* a variant of formatLargeNumber that tests 10^9 before 10^12
formatLargeNumberBillionsFirst(number, tieUp) ==
    IF number.mega >= 1000
    THEN toFixed1(number.mega \div 100
                  + RoundsUp(number.mega % 100, 50, number.rest, tieUp)) \o "B"
    ELSE IF number.mega >= 1
    THEN toFixed1(number.mega * 10 + number.rest \div 100000
                  + RoundsUp(number.rest % 100000, 50000, 0, tieUp)) \o "M"
    ELSE IF number.rest >= 1000
    THEN toFixed1(number.rest \div 100 + RoundsUp(number.rest % 100, 50, 0, tieUp)) \o "K"
    ELSE Grouped(number.rest)

\* number.toLocaleString() is taken in the en-US locale.
formatLargeNumber(number, tieUp) ==
    IF number.mega >= 1000000
    THEN toFixed1(number.mega \div 100000
                  + RoundsUp(number.mega % 100000, 50000, number.rest, tieUp)) \o "T"
    ELSE IF number.mega >= 1000
    THEN toFixed1(number.mega \div 100
                  + RoundsUp(number.mega % 100, 50, number.rest, tieUp)) \o "B"
    ELSE IF number.mega >= 1
    THEN toFixed1(number.mega * 10 + number.rest \div 100000
                  + RoundsUp(number.rest % 100000, 50000, 0, tieUp)) \o "M"
    ELSE IF number.rest >= 1000
    THEN toFixed1(number.rest \div 100 + RoundsUp(number.rest % 100, 50, 0, tieUp)) \o "K"
    ELSE Grouped(number.rest)

\* -------------------------------------------------------------- the DOM
CoinIds == {"bitcoin", "ethereum"}

\* An element is [coin, cls, text, spinners]: data-coin-id, the class tokens
\* in order, the text of its non-spinner content, and its loading-spinner
\* children in child order, each named by the cycle that appended it (a
\* cycle's name is free again once the cycle is over and none of its
\* spinners is left).
El(coin, cls, text) == [coin |-> coin, cls |-> cls, text |-> text, spinners |-> <<>>]

\* the pages explored: a route and the tagged elements of its document
Pages ==
    { [path |-> <<"/">>, dom |-> <<>>],
      [path |-> <<"/">>,
       dom  |-> << El("ethereum", <<"suggestion-item">>, "Ethereum (ETH)") >>],
      [path |-> <<"/", "dashboard">>,
       dom  |-> << El("bitcoin",  <<"price-display">>, "--"),
                   El("bitcoin",  <<"change-display", "text-danger">>, "--"),
                   El("ethereum", <<"suggestion-item">>, "Ethereum (ETH)") >>],
      [path |-> <<"/", "portfolio", "/", "7">>,
       dom  |-> << El("ethereum", <<"price-display", "change-display">>, "--") >>] }

\* the values fetchCoinPrices can resolve a coin to
QuoteSamples ==
    { [usd |-> [units |-> 42, frac7 |-> 1250000], usd_24h_change |-> 2345],
      [usd |-> [units |-> 0,  frac7 |-> 9999996], usd_24h_change |-> -4] }

\* the mappings a resolved fetch can carry
QuoteMaps == UNION {[S -> QuoteSamples] : S \in SUBSET CoinIds}

\* className.replace(/text-(success|danger)/, ''): the first match goes
RECURSIVE StripFirstTextClass(_)
StripFirstTextClass(cls) ==
    IF cls = <<>> THEN <<>>
    ELSE IF Head(cls) \in {"text-success", "text-danger"} THEN Tail(cls)
    ELSE <<Head(cls)>> \o StripFirstTextClass(Tail(cls))

\* classList.add(token): the token set is re-serialised without duplicates
ClassListAdd(cls, token) ==
    LET u == Unique(cls) IN IF token \in Range(u) THEN u ELSE Append(u, token)

\* a variant of UpdateElement that appends to the text instead of replacing it
UpdateElementAccumulate(el, prices) ==
    IF el.coin \notin DOMAIN prices THEN el
    ELSE LET price == prices[el.coin]
             a == IF "price-display" \in Range(el.cls)
                  THEN [el EXCEPT !.text = @ \o formatPrice(price.usd), !.spinners = <<>>]
                  ELSE el
             change == price.usd_24h_change
         IN  IF "change-display" \in Range(a.cls)
             THEN [a EXCEPT !.text = @ \o formatPercentage(change),
                            !.spinners = <<>>,
                            !.cls = ClassListAdd(StripFirstTextClass(a.cls),
                                        IF change >= 0 THEN "text-success" ELSE "text-danger")]
             ELSE a

\* a variant of UpdateElement that gives every element the quote of one key
UpdateElementAnyCoin(el, prices) ==
    IF DOMAIN prices = {} THEN el
    ELSE LET price == prices[CHOOSE k \in DOMAIN prices : TRUE]
             a == IF "price-display" \in Range(el.cls)
                  THEN [el EXCEPT !.text = formatPrice(price.usd), !.spinners = <<>>]
                  ELSE el
             change == price.usd_24h_change
         IN  IF "change-display" \in Range(a.cls)
             THEN [a EXCEPT !.text = formatPercentage(change),
                            !.spinners = <<>>,
                            !.cls = ClassListAdd(StripFirstTextClass(a.cls),
                                        IF change >= 0 THEN "text-success" ELSE "text-danger")]
             ELSE a

\* the body of the forEach of updatePriceElements, for one element
UpdateElement(el, prices) ==
    IF el.coin \notin DOMAIN prices THEN el
    ELSE LET price == prices[el.coin]
             a == IF "price-display" \in Range(el.cls)
                  THEN [el EXCEPT !.text = formatPrice(price.usd), !.spinners = <<>>]
                  ELSE el
             change == price.usd_24h_change
         IN  IF "change-display" \in Range(a.cls)
             THEN [a EXCEPT !.text = formatPercentage(change),
                            !.spinners = <<>>,
                            !.cls = ClassListAdd(StripFirstTextClass(a.cls),
                                        IF change >= 0 THEN "text-success" ELSE "text-danger")]
             ELSE a

updatePriceElements(d, prices) == [i \in 1..Len(d) |-> UpdateElement(d[i], prices)]

showLoadingIndicators(d, c) ==
    [i \in 1..Len(d) |-> [d[i] EXCEPT !.spinners = Append(@, c)]]

\* a variant of hideLoadingIndicators that looks for a spinner in the first
\* element only
hideLoadingIndicatorsFirst(d) ==
    [i \in 1..Len(d) |-> [d[i] EXCEPT !.spinners = IF @ = <<>> \/ i > 1 THEN @ ELSE Tail(@)]]

hideLoadingIndicators(d) ==
    [i \in 1..Len(d) |-> [d[i] EXCEPT !.spinners = IF @ = <<>> THEN <<>> ELSE Tail(@)]]

\* ----------------------------------------------------------- operations
\* a variant of startPriceUpdates without the route test
startPriceUpdatesAnyRoute ==
    /\ nextTimerId <= MaxTimers
    /\ priceUpdateInterval' = nextTimerId
    /\ liveTimers' = liveTimers \cup {nextTimerId}
    /\ nextTimerId' = nextTimerId + 1

startPriceUpdates ==
    IF OnTickerRoute(pathname)
    THEN /\ nextTimerId <= MaxTimers
         /\ priceUpdateInterval' = nextTimerId
         /\ liveTimers' = liveTimers \cup {nextTimerId}
         /\ nextTimerId' = nextTimerId + 1
    ELSE UNCHANGED tickerVars

\* if (priceUpdateInterval) { clearInterval(priceUpdateInterval); }
clearPriceUpdates ==
    /\ liveTimers' = IF priceUpdateInterval # 0
                     THEN liveTimers \ {priceUpdateInterval}
                     ELSE liveTimers
    /\ UNCHANGED <<priceUpdateInterval, nextTimerId>>

\* the names no cycle in flight and no spinner in the document bears
FreeNames ==
    (1..MaxCycles) \ (cycles \cup UNION {Range(dom[i].spinners) : i \in 1..Len(dom)})

updatePrices ==
    IF Len(dom) = 0
    THEN UNCHANGED pipelineVars
    ELSE /\ FreeNames # {}
         /\ LET c == CHOOSE n \in FreeNames : \A m \in FreeNames : n <= m
                coinIds == [i \in 1..Len(dom) |-> dom[i].coin]
                uniqueCoinIds == Unique(coinIds)
            IN  /\ dom' = showLoadingIndicators(dom, c)
                /\ cycles' = cycles \cup {c}
                /\ pending' = [pending EXCEPT ![c] = Append(@, uniqueCoinIds)]

\* the banner is appended to the body and its removal timer is set
showNotification(message, type, duration) ==
    /\ Len(notifications) + orphanTimers < MaxNotes
    /\ notifications' = Append(notifications,
            [message |-> message, type |-> type, duration |-> duration])
    /\ UNCHANGED orphanTimers

RemoveAt(s, i) == SubSeq(s, 1, i - 1) \o SubSeq(s, i + 1, Len(s))

\* -------------------------------------------------------------- callbacks
DOMContentLoaded ==
    /\ ~domLoaded
    /\ domLoaded' = TRUE
    /\ startPriceUpdates
    /\ UNCHANGED <<apiVars, pathname, docHidden, hiddenFor, pipelineVars, errorLogged, noteVars>>

\* a variant of VisibilityChange that drops the fetches in flight on hiding
VisibilityChangeCancels ==
    /\ docHidden' = ~docHidden
    /\ IF docHidden'
       THEN /\ clearPriceUpdates
            /\ hiddenFor' = 0
            /\ cycles' = {}
            /\ pending' = [c \in 1..MaxCycles |-> <<>>]
            /\ dom' = [i \in 1..Len(dom) |-> [dom[i] EXCEPT !.spinners = <<>>]]
       ELSE /\ startPriceUpdates
            /\ hiddenFor' = -1
            /\ UNCHANGED pipelineVars
    /\ UNCHANGED <<apiVars, pathname, domLoaded, errorLogged, noteVars>>

VisibilityChange ==
    /\ docHidden' = ~docHidden
    /\ IF docHidden'
       THEN /\ clearPriceUpdates
            /\ hiddenFor' = 0
       ELSE /\ startPriceUpdates
            /\ hiddenFor' = -1
    /\ UNCHANGED <<apiVars, pathname, domLoaded, pipelineVars, errorLogged, noteVars>>

BeforeUnload ==
    /\ clearPriceUpdates
    /\ UNCHANGED <<apiVars, pageVars, pipelineVars, errorLogged, noteVars>>

\* an interval timer fires its callback, updatePrices
TimerTick(t) ==
    /\ t \in liveTimers
    /\ updatePrices
    /\ UNCHANGED <<apiVars, pageVars, tickerVars, errorLogged, noteVars>>

\* a little more than one period passes while the page stays hidden
ElapsePeriod ==
    /\ hiddenFor = 0
    /\ hiddenFor' = IntervalMs + 1
    /\ UNCHANGED <<apiVars, pathname, docHidden, domLoaded, tickerVars, pipelineVars, errorLogged,
                   noteVars>>

\* a click on .refresh-prices: refreshPrices()
ClickRefresh ==
    /\ domLoaded
    /\ ~docHidden
    /\ showNotification("Refreshing prices...", "info", RefreshDuration)
    /\ updatePrices
    /\ UNCHANGED <<apiVars, pageVars, tickerVars, errorLogged>>

\* the online event (the code never reads navigator.onLine)
Online ==
    /\ showNotification("Connection restored", "success", DefaultDuration)
    /\ updatePrices
    /\ UNCHANGED <<apiVars, pageVars, tickerVars, errorLogged>>

\* a variant of Offline that also stops the ticker
OfflineStopsTicker ==
    /\ showNotification("Connection lost", "warning", DefaultDuration)
    /\ clearPriceUpdates
    /\ UNCHANGED <<apiVars, pageVars, pipelineVars, errorLogged>>

\* the offline event
Offline ==
    /\ showNotification("Connection lost", "warning", DefaultDuration)
    /\ UNCHANGED <<apiVars, pageVars, tickerVars, pipelineVars, errorLogged>>

\* a variant of FetchResolve that writes the quotes only when no other cycle
\* is in flight
FetchResolveGuarded(c, prices) ==
    /\ c \in cycles
    /\ pending[c] # <<>>
    /\ prices \in [Range(Head(pending[c])) -> QuoteSamples]
    /\ dom' = hideLoadingIndicators(IF cycles = {c} THEN updatePriceElements(dom, prices)
                                    ELSE dom)
    /\ cycles' = cycles \ {c}
    /\ pending' = [pending EXCEPT ![c] = Tail(@)]
    /\ UNCHANGED <<apiVars, pageVars, tickerVars, errorLogged, noteVars>>

\* the promise of cycle c's fetch resolves: the .then callback of updatePrices
FetchResolve(c, prices) ==
    /\ c \in cycles
    /\ pending[c] # <<>>
    /\ prices \in [Range(Head(pending[c])) -> QuoteSamples]
    /\ dom' = hideLoadingIndicators(updatePriceElements(dom, prices))
    /\ cycles' = cycles \ {c}
    /\ pending' = [pending EXCEPT ![c] = Tail(@)]
    /\ UNCHANGED <<apiVars, pageVars, tickerVars, errorLogged, noteVars>>

\* a variant of FetchReject without a .catch callback: the rejection is lost
FetchRejectUnhandled(c) ==
    /\ c \in cycles
    /\ pending[c] # <<>>
    /\ pending' = [pending EXCEPT ![c] = Tail(@)]
    /\ UNCHANGED <<apiVars, pageVars, tickerVars, dom, cycles, errorLogged, noteVars>>

\* a variant of FetchReject whose handler calls updatePrices again
FetchRejectRetry(c) ==
    /\ c \in cycles
    /\ pending[c] # <<>>
    /\ FreeNames # {}
    /\ errorLogged' = TRUE
    /\ showNotification("Failed to update prices", "error", DefaultDuration)
    /\ LET n == CHOOSE k \in FreeNames : \A m \in FreeNames : k <= m
       IN  /\ dom' = showLoadingIndicators(hideLoadingIndicators(dom), n)
           /\ cycles' = (cycles \ {c}) \cup {n}
           /\ pending' = [pending EXCEPT ![c] = Tail(@), ![n] = Append(@, Head(pending[c]))]
    /\ UNCHANGED <<apiVars, pageVars, tickerVars>>

\* the promise of cycle c's fetch rejects: the .catch callback of updatePrices
FetchReject(c) ==
    /\ c \in cycles
    /\ pending[c] # <<>>
    /\ errorLogged' = TRUE
    /\ dom' = hideLoadingIndicators(dom)
    /\ showNotification("Failed to update prices", "error", DefaultDuration)
    /\ cycles' = cycles \ {c}
    /\ pending' = [pending EXCEPT ![c] = Tail(@)]
    /\ UNCHANGED <<apiVars, pageVars, tickerVars>>

\* a variant of NotificationTimeout whose callback leaves the banner in place
NotificationTimeoutKeep(i) ==
    /\ i \in 1..Len(notifications)
    /\ UNCHANGED vars

\* the setTimeout callback of showNotification for the attached banner i
NotificationTimeout(i) ==
    /\ i \in 1..Len(notifications)
    /\ notifications' = RemoveAt(notifications, i)
    /\ UNCHANGED <<apiVars, pageVars, tickerVars, pipelineVars, errorLogged, orphanTimers>>

\* the setTimeout callback of showNotification for a banner already detached:
\* notification.parentNode is null, nothing is removed
OrphanTimeout ==
    /\ orphanTimers > 0
    /\ orphanTimers' = orphanTimers - 1
    /\ UNCHANGED <<apiVars, pageVars, tickerVars, pipelineVars, errorLogged, notifications>>

\* the user closes banner i with its btn-close before its timer fires
DismissNotification(i) ==
    /\ i \in 1..Len(notifications)
    /\ ~docHidden
    /\ notifications' = RemoveAt(notifications, i)
    /\ orphanTimers' = orphanTimers + 1
    /\ UNCHANGED <<apiVars, pageVars, tickerVars, pipelineVars, errorLogged>>

\* ---------------------------------------------------------- specification
\* no function of the script has been called directly
NoCall == [fn |-> "none", arg |-> <<>>]

Init ==
    /\ \E page \in Pages : pathname = page.path /\ dom = page.dom
    /\ docHidden \in BOOLEAN
    /\ domLoaded = FALSE
    /\ priceUpdateInterval = 0
    /\ nextTimerId = 1
    /\ liveTimers = {}
    /\ hiddenFor = -1
    /\ cycles = {}
    /\ pending = [c \in 1..MaxCycles |-> <<>>]
    /\ errorLogged = FALSE
    /\ notifications = <<>>
    /\ orphanTimers = 0
    /\ call = NoCall
    /\ result = ""

Tick    == \E t \in 1..MaxTimers : TimerTick(t)
Resolve == \E c \in 1..MaxCycles : \E prices \in QuoteMaps : FetchResolve(c, prices)
Reject  == \E c \in 1..MaxCycles : FetchReject(c)

Next ==
    \/ DOMContentLoaded
    \/ VisibilityChange
    \/ BeforeUnload
    \/ Tick
    \/ ElapsePeriod
    \/ ClickRefresh
    \/ Online
    \/ Offline
    \/ Resolve
    \/ Reject
    \/ \E i \in 1..MaxNotes : NotificationTimeout(i)
    \/ OrphanTimeout
    \/ \E i \in 1..MaxNotes : DismissNotification(i)

Spec == Init /\ [][Next]_vars

\* the promise of cycle c's fetch settles: it is pending no more, which is
\* the step FetchResolve or FetchReject of that cycle
Settle(c) ==
    /\ pending[c] # <<>>
    /\ pending' = [pending EXCEPT ![c] = Tail(@)]

\* every fetch promise settles, and the event loop then runs its callback
LiveSpec == Spec /\ \A c \in 1..MaxCycles : WF_pending(Settle(c))

\* every removal timer set by showNotification fires
NotifierSpec ==
    /\ Spec
    /\ \A i \in 1..MaxNotes : WF_vars(NotificationTimeout(i))
    /\ WF_vars(OrphanTimeout)

\* ------------------------------------------------- the formatting functions
\* The functions exported in window.CryptoDash, called directly on inputs
\* drawn from grids that hold the edges of every branch and rounding step.
PriceInputs ==
    { [units |-> u, frac7 |-> f] :
        u \in (0..MaxUnits) \cup {999, 1000, 999999, 1234567},
        f \in {0, 4, 5, 49999, 50000, 1250000, 9949999, 9950000, 9999994, 9999995,
               9999996, 9999999} }

PercentageInputs == (-MaxPct..MaxPct) \cup {-100000, -99995, -2345, 2345, 99995, 100000}

LargeNumberInputs ==
    { [mega |-> m, rest |-> r] :
        m \in (0..MaxMega) \cup {999, 1000, 1500, 999949, 999950, 999999, 1000000, 2300000},
        r \in {0, 1, 999, 1000, 1049, 1050, 1051, 1500, 949999, 950000, 999949, 999950,
               999960, 999999} }

CallFormatPrice(price) ==
    /\ call' = [fn |-> "formatPrice", arg |-> price]
    /\ result' = formatPrice(price)
    /\ UNCHANGED <<pageVars, tickerVars, pipelineVars, errorLogged, noteVars>>

CallFormatPercentage(percentage) ==
    /\ call' = [fn |-> "formatPercentage", arg |-> percentage]
    /\ result' = formatPercentage(percentage)
    /\ UNCHANGED <<pageVars, tickerVars, pipelineVars, errorLogged, noteVars>>

CallFormatLargeNumber(number, tieUp) ==
    /\ call' = [fn |-> "formatLargeNumber", arg |-> number]
    /\ result' = formatLargeNumber(number, tieUp)
    /\ UNCHANGED <<pageVars, tickerVars, pipelineVars, errorLogged, noteVars>>

\* a page without tagged elements, before any event
FormatInit ==
    /\ Init
    /\ pathname = <<"/">>
    /\ dom = <<>>
    /\ ~docHidden

FormatNext ==
    \/ \E price \in PriceInputs : CallFormatPrice(price)
    \/ \E percentage \in PercentageInputs : CallFormatPercentage(percentage)
    \/ \E number \in LargeNumberInputs : \E tieUp \in BOOLEAN :
            CallFormatLargeNumber(number, tieUp)

FormatSpec == FormatInit /\ [][FormatNext]_vars

\* ------------------------------------------------- updatePriceElements alone
\* updatePriceElements called directly on documents whose first element has
\* any class list of up to MaxClasses tokens.
ClassTokens == {"price-display", "change-display", "text-success", "text-danger"}
ClassLists == UNION {[1..n -> ClassTokens] : n \in 1..MaxClasses}

ApplyDocs ==
    { << El("bitcoin", cls, "--"), El(coin, <<"price-display">>, "--") >> :
        cls \in ClassLists, coin \in CoinIds }

CallUpdatePriceElements(prices) ==
    /\ call' = [fn |-> "updatePriceElements", arg |-> prices]
    /\ dom' = updatePriceElements(dom, prices)
    /\ UNCHANGED <<result, pageVars, tickerVars, cycles, pending, errorLogged, noteVars>>

ApplyInit ==
    /\ pathname = <<"/">>
    /\ dom \in ApplyDocs
    /\ docHidden = FALSE
    /\ domLoaded = FALSE
    /\ priceUpdateInterval = 0
    /\ nextTimerId = 1
    /\ liveTimers = {}
    /\ hiddenFor = -1
    /\ cycles = {}
    /\ pending = [c \in 1..MaxCycles |-> <<>>]
    /\ errorLogged = FALSE
    /\ notifications = <<>>
    /\ orphanTimers = 0
    /\ call = NoCall
    /\ result = ""

ApplyNext == \E prices \in QuoteMaps : CallUpdatePriceElements(prices)

ApplySpec == ApplyInit /\ [][ApplyNext]_vars

\* ------------------------------------------------------------ properties
AllowListed == pathname \in { <<"/", "dashboard">>, <<"/", "portfolio", "/", "7">> }

Spinning == {i \in 1..Len(dom) : dom[i].spinners # <<>>}

ErrorNote ==
    [message |-> "Failed to update prices", type |-> "error", duration |-> DefaultDuration]
RefreshNote ==
    [message |-> "Refreshing prices...", type |-> "info", duration |-> RefreshDuration]

\* a step in which a refresh cycle enters Loading
CycleStarts == cycles' \ cycles # {}

\* C1: at any time at most one interval timer of the ticker is live.
C1_AtMostOneTimer == Cardinality(liveTimers) <= 1

\* C2: once the page has been hidden for more than one period, no timer tick
\* starts a refresh cycle.
C2_NoLateTickWhileHidden ==
    [][Tick /\ CycleStarts => ~(docHidden /\ hiddenFor > IntervalMs)]_vars

\* C3: off the allow-listed routes no timer is ever live and no tick starts a
\* cycle; on an allow-listed route DOMContentLoaded and every change to
\* visible leave a fresh live timer in priceUpdateInterval.
C3_RouteGate ==
    /\ [](~AllowListed => liveTimers = {})
    /\ [][Tick /\ CycleStarts => AllowListed]_vars
    /\ [][AllowListed /\ (DOMContentLoaded \/ (VisibilityChange /\ ~docHidden'))
            => /\ priceUpdateInterval' \in liveTimers'
               /\ priceUpdateInterval' \notin liveTimers]_vars

C3_Witness ==
    /\ AllowListed /\ domLoaded /\ ~docHidden
    /\ nextTimerId = 2
    /\ priceUpdateInterval = 1 /\ liveTimers = {1}

\* C4: after the beforeunload handler has run no interval timer is live.
C4_NoTimerAfterUnload == [][BeforeUnload => liveTimers' = {}]_vars

\* C5: when the fetch of a cycle rejects, no marker that cycle
\* attached is left and exactly one error notification is raised.
C5_RejectClearsOwnMarkers ==
    [][\A c \in 1..MaxCycles : FetchReject(c) =>
            /\ \A i \in 1..Len(dom) : c \notin Range(dom'[i].spinners)
            /\ notifications' = Append(notifications, ErrorNote)]_vars

\* C6: whenever no refresh cycle is in flight, no element carries a marker.
C6_NoMarkerWhenIdle == cycles = {} => Spinning = {}

C6_Witness ==
    /\ cycles = {} /\ errorLogged
    /\ Len(dom) > 1 /\ Spinning = {}
    /\ \E i \in 1..Len(dom) : dom[i].text \notin {"--", "Ethereum (ETH)"}

\* C7: a cycle is in Loading exactly while its fetch is pending; it leaves
\* Loading through Success (nothing notified, nothing logged) or through
\* Failure (error logged, error notification raised, texts kept); and every
\* cycle in Loading eventually leaves it.
C7_CycleCompletes ==
    /\ [](\A c \in 1..MaxCycles : c \in cycles <=> pending[c] # <<>>)
    /\ [][\A c \in cycles \ cycles' :
            \/ /\ notifications' = notifications
               /\ errorLogged' = errorLogged
            \/ /\ notifications' = Append(notifications, ErrorNote)
               /\ errorLogged'
               /\ \A i \in 1..Len(dom) : dom'[i].text = dom[i].text]_vars
    /\ \A c \in 1..MaxCycles : (c \in cycles) ~> (c \notin cycles)

C7_Witness ==
    /\ Cardinality(cycles) = MaxCycles
    /\ errorLogged
    /\ \E i \in 1..Len(dom) : dom[i].text \notin {"--", "Ethereum (ETH)"}

\* C8 (as stated): once a cycle has failed, a new cycle is started only by a
\* timer tick or by a manual refresh.
C8_OnlyTickOrManualRetries ==
    [][errorLogged /\ CycleStarts => Tick \/ ClickRefresh]_vars

\* C8 (amended): once a cycle has failed, a new cycle is started only by a
\* timer tick, a manual refresh or an online event; the failure handler
\* itself starts none.
C8_NoAutomaticRetry ==
    [][errorLogged' /\ CycleStarts => Tick \/ ClickRefresh \/ Online]_vars

C8_Witness ==
    /\ errorLogged
    /\ cycles # {}
    /\ notifications = <<RefreshNote>>

\* C9: every cycle in flight has made exactly one call of the fetcher, with
\* the coin ids of the tagged elements, each once.
C9_FetcherGetsDistinctIds ==
    \A c \in cycles :
        /\ Len(pending[c]) = 1
        /\ \A k \in 1..Len(pending[c]) :
              /\ Cardinality(Range(pending[c][k])) = Len(pending[c][k])
              /\ Range(pending[c][k]) = {dom[i].coin : i \in 1..Len(dom)}

C9_Witness ==
    /\ [i \in 1..Len(dom) |-> dom[i].coin] = <<"bitcoin", "bitcoin", "ethereum">>
    /\ \E c \in cycles : pending[c] = << <<"bitcoin", "ethereum">> >>

\* C10: applying a quote mapping twice leaves the same texts as applying it
\* once, for every mapping and every document state.
C10_ApplyIdempotent ==
    \A prices \in QuoteMaps :
        LET once  == updatePriceElements(dom, prices)
            twice == updatePriceElements(once, prices)
        IN  \A i \in 1..Len(dom) : twice[i].text = once[i].text

C10_Witness ==
    /\ cycles = {}
    /\ \E prices \in [{dom[i].coin : i \in 1..Len(dom)} -> QuoteSamples] :
          /\ updatePriceElements(dom, prices) = dom
          /\ \E i \in 1..Len(dom) :
                /\ "price-display" \in Range(dom[i].cls)
                /\ "change-display" \notin Range(dom[i].cls)
                /\ dom[i].text = formatPrice(prices[dom[i].coin].usd)
          /\ \E i \in 1..Len(dom) :
                /\ "change-display" \in Range(dom[i].cls)
                /\ dom[i].text = formatPercentage(prices[dom[i].coin].usd_24h_change)

\* ------------------------------------------- properties of the formatters
\* reading a formatted string
Digits == {"0", "1", "2", "3", "4", "5", "6", "7", "8", "9"}
Char(s, i) == SubSeq(s, i, i)
Points(s) == {i \in 1..Len(s) : Char(s, i) = "."}
IsDigits(s) == Len(s) > 0 /\ \A i \in 1..Len(s) : Char(s, i) \in Digits
IsGroupedDigits(s) == Len(s) > 0 /\ \A i \in 1..Len(s) : Char(s, i) \in Digits \cup {","}

\* s is an integer part, one point and exactly n fraction digits
HasFractionDigits(s, n) ==
    /\ Cardinality(Points(s)) = 1
    /\ LET p == CHOOSE i \in Points(s) : TRUE
       IN  /\ IsGroupedDigits(SubSeq(s, 1, p - 1))
           /\ IsDigits(SubSeq(s, p + 1, Len(s)))
           /\ Len(s) - p = n

\* C12: formatPercentage(x) begins with "+" exactly when x >= 0 and with "-"
\* otherwise, and shows exactly 2 fraction digits before the "%".
C12_PercentageSignAndDigits ==
    call.fn = "formatPercentage" =>
        /\ (Char(result, 1) = "+") <=> (call.arg >= 0)
        /\ (Char(result, 1) = "-") <=> (call.arg < 0)
        /\ Char(result, Len(result)) = "%"
        /\ HasFractionDigits(SubSeq(result, 2, Len(result) - 1), 2)

C12_Witness ==
    /\ call.fn = "formatPercentage"
    /\ call.arg = -4
    /\ result = "-0.00%"

\* C13: formatPrice(p) shows exactly 2 fraction digits when p >= 1 and
\* exactly 6 when 0 <= p < 1, the branch taken on p before rounding.
C13_PriceFractionDigits ==
    call.fn = "formatPrice" =>
        /\ Char(result, 1) = "$"
        /\ HasFractionDigits(SubSeq(result, 2, Len(result)),
                             IF call.arg.units >= 1 THEN 2 ELSE 6)

C13_Witness ==
    /\ call.fn = "formatPrice"
    /\ call.arg = [units |-> 0, frac7 |-> 9999996]
    /\ result = "$1.000000"

RECURSIVE ParseNat(_)
\* the number a string of digits writes
ParseNat(s) ==
    IF s = "" THEN 0
    ELSE LET last == Char(s, Len(s))
             d == CHOOSE k \in 0..9 : ToString(k) = last
         IN  10 * ParseNat(SubSeq(s, 1, Len(s) - 1)) + d

\* the tenths written by a string "<digits>.<digit>"
Tenths(s) == 10 * ParseNat(SubSeq(s, 1, Len(s) - 2)) + ParseNat(Char(s, Len(s)))

\* s is "<digits>.<digit>" followed by the suffix
IsAbbreviated(s, suffix) ==
    /\ Len(s) >= 4
    /\ Char(s, Len(s)) = suffix
    /\ Char(s, Len(s) - 2) = "."
    /\ IsDigits(SubSeq(s, 1, Len(s) - 3))
    /\ IsDigits(Char(s, Len(s) - 1))

\* d, the distance of the number from the value shown (in units of which
\* half is half a tenth of the threshold), is within rounding
WithinHalf(d, half, beyond) == d >= -half /\ (d < half \/ (d = half /\ ~beyond))

\* C14: formatLargeNumber(n) shows n divided by the first of 10^12, 10^9,
\* 10^6, 10^3 that n reaches, rounded to 1 decimal place, with T, B, M or K,
\* and shows n below 10^3 as plain digits; 1,500,000,000 gives "1.5B", 999
\* gives "999" and 2,300,000,000,000 gives "2.3T".
C14_LargeNumberAbbreviation ==
    call.fn = "formatLargeNumber" =>
        LET n == call.arg
            t == Tenths(SubSeq(result, 1, Len(result) - 1))
        IN  /\ IF n.mega >= 1000000
               THEN /\ IsAbbreviated(result, "T")
                    /\ WithinHalf(n.mega - t * 100000, 50000, n.rest > 0)
               ELSE IF n.mega >= 1000
               THEN /\ IsAbbreviated(result, "B")
                    /\ WithinHalf(n.mega - t * 100, 50, n.rest > 0)
               ELSE IF n.mega >= 1
               THEN /\ IsAbbreviated(result, "M")
                    /\ WithinHalf((n.mega * 10 - t) * 100000 + n.rest, 50000, FALSE)
               ELSE IF n.rest >= 1000
               THEN /\ IsAbbreviated(result, "K")
                    /\ WithinHalf(n.rest - t * 100, 50, FALSE)
               ELSE /\ IsDigits(result)
                    /\ ParseNat(result) = n.rest
            /\ n = [mega |-> 1500, rest |-> 0] => result = "1.5B"
            /\ n = [mega |-> 0, rest |-> 999] => result = "999"
            /\ n = [mega |-> 2300000, rest |-> 0] => result = "2.3T"

C14_Witness ==
    /\ call.fn = "formatLargeNumber"
    /\ call.arg = [mega |-> 1500, rest |-> 0]
    /\ result = "1.5B"

\* C20: when formatLargeNumber shows a number with K, M or B, the number
\* before the suffix is below 1000.
C20_AbbreviatedBelowThousand ==
    /\ call.fn = "formatLargeNumber"
    /\ Char(result, Len(result)) \in {"K", "M", "B"}
    => Tenths(SubSeq(result, 1, Len(result) - 1)) < 10000

\* ------------------------------------- properties of updatePriceElements
HasRole(el) == "price-display" \in Range(el.cls) \/ "change-display" \in Range(el.cls)

\* C11: after updatePriceElements has applied a quote to a change-role
\* element, the element carries text-success exactly when the change is
\* >= 0 and text-danger exactly when it is < 0, whatever class list it had.
C11_ExactlyOneStyleClass ==
    call.fn = "updatePriceElements" =>
        \A i \in 1..Len(dom) :
            "change-display" \in Range(dom[i].cls) /\ dom[i].coin \in DOMAIN call.arg =>
                LET change == call.arg[dom[i].coin].usd_24h_change
                IN  /\ "text-success" \in Range(dom[i].cls) <=> change >= 0
                    /\ "text-danger" \in Range(dom[i].cls) <=> change < 0

\* C19: updatePriceElements leaves the text and the class list of every
\* element whose coin is no key of the mapping, and of every element with
\* neither role, as they were, and writes into every other element the
\* quote of that element's own coin.
C19_UpdatesOnlyOwnCoin ==
    [][\A prices \in QuoteMaps : CallUpdatePriceElements(prices) =>
          \A i \in 1..Len(dom) :
              IF dom[i].coin \notin DOMAIN prices \/ ~HasRole(dom[i])
              THEN /\ dom'[i].text = dom[i].text
                   /\ dom'[i].cls = dom[i].cls
              ELSE dom'[i].text =
                      IF "change-display" \in Range(dom[i].cls)
                      THEN formatPercentage(prices[dom[i].coin].usd_24h_change)
                      ELSE formatPrice(prices[dom[i].coin].usd)]_vars

C19_Witness ==
    /\ call.fn = "updatePriceElements"
    /\ DOMAIN call.arg = {"bitcoin"}
    /\ Len(dom) = 2
    /\ dom[1].cls = <<"price-display">> /\ dom[1].text = formatPrice(call.arg["bitcoin"].usd)
    /\ dom[2].coin = "ethereum" /\ dom[2].text = "--"

\* ------------------------------------------------ properties, continued
\* the banner that has been in the document longest is removed
OldestBannerGoes == notifications # <<>> /\ notifications' = Tail(notifications)

\* C15: every banner is eventually removed from the document (again and
\* again no banner is left, or again and again the oldest one goes); the
\* timer of an attached banner removes exactly that banner; and the timer of
\* a banner already detached changes nothing but the set of pending timers
\* and logs no error.
C15_BannersExpire ==
    /\ []<>(notifications = <<>>) \/ []<><<OldestBannerGoes>>_notifications
    /\ [][\A i \in 1..MaxNotes :
            NotificationTimeout(i) => notifications' = RemoveAt(notifications, i)]_vars
    /\ [][OrphanTimeout =>
            /\ orphanTimers' = orphanTimers - 1
            /\ UNCHANGED <<notifications, dom, cycles, pending, errorLogged, tickerVars>>]_vars

C15_Witness ==
    /\ errorLogged
    /\ notifications = <<>>
    /\ orphanTimers = 1

RestoredNote ==
    [message |-> "Connection restored", type |-> "success", duration |-> DefaultDuration]

QuoteText(el, prices) ==
    IF "change-display" \in Range(el.cls)
    THEN formatPercentage(prices[el.coin].usd_24h_change)
    ELSE formatPrice(prices[el.coin].usd)

\* a step in which cycle c leaves Loading through the .then callback
Resolves(c) == c \in cycles /\ c \notin cycles' /\ notifications' = notifications

\* after the step every role element shows one mapping of quotes for the
\* coins cycle c asked for
WritesQuotes(c) ==
    \E prices \in [Range(Head(pending[c])) -> QuoteSamples] :
        \A i \in 1..Len(dom) : HasRole(dom[i]) => dom'[i].text = QuoteText(dom[i], prices)

\* C17: whenever a cycle resolves, with other cycles in flight or not and
\* whichever started first, the role elements show that cycle's quotes
\* afterwards: the fetch that resolves last wins.
C17_LastResolvedWins ==
    [][\A c \in 1..MaxCycles : Resolves(c) => WritesQuotes(c)]_vars

C17_Witness ==
    /\ Cardinality(cycles) = 2
    /\ notifications = <<RefreshNote>>
    /\ ~errorLogged
    /\ liveTimers # {}
    /\ Spinning # {}

====
